---------------------------- MODULE Spec2Model ----------------------------
(***************************************************************************)
(* Model of FISHscale/spatial/boundaries.py: the grid-bisection border     *)
(* strength pipeline (square_grid, bisect, _worker_bisect, _worker_angle,  *)
(* Boundaries.boundaries_make, Boundaries_Multi.boundaries_make_multi).    *)
(*                                                                         *)
(* Numbers.  The code computes in floating point.  The model computes the  *)
(* same expressions exactly, in numbers of the form                        *)
(*        (u + v*sqrt(3) + w*eps) / d        written  <<u, v, w, d>>       *)
(* with u, v, w, d integers and d > 0.  sqrt(3) is needed for the sine and *)
(* cosine of 60 and 120 degrees.  eps is a positive infinitesimal: it is   *)
(* the value of np.cos(np.deg2rad(90)), which is 6.1e-17 and not 0.        *)
(***************************************************************************)
EXTENDS Integers, Sequences, FiniteSets

VARIABLES
    call,   \* the arguments of the call under study (a record)
    ret,    \* what the call has produced so far (a record, st = "pending" before)
    \* one run of Boundaries.boundaries_make:
    ds,             \* self and the arguments: the dataset and the parameters
    pc,             \* where the run is
    err,            \* the exception that ended the run ("none" otherwise)
    grid,           \* grid, flat list of grid points
    shape,          \* shape = Xi.shape = <<rows, cols>>
    lines,          \* the bisection lines
    genes,          \* the genes to run
    tasks1,         \* state of each delayed _worker_bisect task
    results,        \* what each _worker_bisect task returned
    filt_grid,      \* the eroded validity mask, two-dimensional
    count_matrix,   \* count_matrix[:, filt]
    stack,          \* above counts, gene x valid grid point x angle
    stack_other,    \* below counts, gene x valid grid point x angle
    grid_filt,      \* grid[filt, :]
    tasks2,         \* state of each delayed _worker_angle task
    results2,       \* what each _worker_angle task returned; the result array
    image           \* the rasterised distances

callvars == <<call, ret>>

bmvars == <<ds, pc, err, grid, shape, lines, genes, tasks1, results, filt_grid,
            count_matrix, stack, stack_other, grid_filt, tasks2, results2, image>>

vars == <<callvars, bmvars>>

\* the variables of boundaries_make while another operation is studied
BMIdle ==
    /\ ds = [none |-> TRUE] /\ pc = "idle" /\ err = "none"
    /\ grid = <<>> /\ shape = <<0, 0>> /\ lines = <<>> /\ genes = <<>>
    /\ tasks1 = <<>> /\ results = <<>> /\ filt_grid = <<>>
    /\ count_matrix = <<>> /\ stack = <<>> /\ stack_other = <<>>
    /\ grid_filt = <<>> /\ tasks2 = <<>> /\ results2 = <<>> /\ image = <<>>

\* the variables of a single call while boundaries_make is studied
CallIdle == call = [fn |-> "none"] /\ ret = [st |-> "idle"]

---------------------------------------------------------------------------
(* Exact arithmetic standing for the float arithmetic of the code *)

Num(n) == <<n, 0, 0, 1>>

Sgn(n) == IF n > 0 THEN 1 ELSE IF n < 0 THEN -1 ELSE 0

\* operands over the same denominator keep it
NAdd(a, b) ==
    IF a[4] = b[4] THEN <<a[1] + b[1], a[2] + b[2], a[3] + b[3], a[4]>>
    ELSE <<a[1]*b[4] + b[1]*a[4], a[2]*b[4] + b[2]*a[4],
           a[3]*b[4] + b[3]*a[4], a[4]*b[4]>>

NNeg(a) == <<-a[1], -a[2], -a[3], a[4]>>

NSub(a, b) ==
    IF a[4] = b[4] THEN <<a[1] - b[1], a[2] - b[2], a[3] - b[3], a[4]>>
    ELSE <<a[1]*b[4] - b[1]*a[4], a[2]*b[4] - b[2]*a[4],
           a[3]*b[4] - b[3]*a[4], a[4]*b[4]>>

\* eps*eps is below every float the code can see and is dropped; no product
\* of the code multiplies an eps part by a sqrt(3) part (they belong to
\* different angles).
NMul(a, b) == <<a[1]*b[1] + 3*a[2]*b[2], a[1]*b[2] + a[2]*b[1],
                a[1]*b[3] + a[3]*b[1], a[4]*b[4]>>

\* a / n for an integer n > 0
NDivInt(a, n) == <<a[1], a[2], a[3], a[4]*n>>

\* the sign of u + v*sqrt(3)
SurdSign(u, v) ==
    IF v = 0 THEN Sgn(u)
    ELSE IF u = 0 THEN Sgn(v)
    ELSE IF Sgn(u) = Sgn(v) THEN Sgn(u)
    ELSE IF u*u > 3*v*v THEN Sgn(u) ELSE Sgn(v)

NSign(a) ==
    IF SurdSign(a[1], a[2]) # 0 THEN SurdSign(a[1], a[2]) ELSE Sgn(a[3])

NEq(a, b) == NSign(NSub(a, b)) = 0

NLess(a, b) == NSign(NSub(a, b)) < 0

NLeq(a, b) == NSign(NSub(a, b)) <= 0

RECURSIVE Gcd(_, _)
Gcd(a, b) == IF b = 0 THEN (IF a < 0 THEN -a ELSE a) ELSE Gcd(b, a % b)

Abs(n) == IF n < 0 THEN -n ELSE n

\* the same number in lowest terms
NNorm(a) ==
    LET g == Gcd(Gcd(Abs(a[1]), Abs(a[2])), Gcd(Abs(a[3]), a[4]))
    IN  <<a[1] \div g, a[2] \div g, a[3] \div g, a[4] \div g>>

\* math.ceil(a / b) for integers a and b # 0
CeilDiv(a, b) ==
    IF b > 0 THEN -((-a) \div b) ELSE -(a \div (-b))

---------------------------------------------------------------------------
(* np.linspace(start, stop, num), endpoint included:                       *)
(* start + k * ((stop - start) / (num - 1)) for k = 0 .. num-1; a single   *)
(* sample is start; no samples for num = 0.  num < 0 raises ValueError and *)
(* is decided by the callers.                                              *)
linspace(start, stop, num) ==
    [k \in 1..num |->
        IF num = 1 THEN NNorm(start)
        ELSE NNorm(NAdd(start,
                        NMul(Num(k - 1), NDivInt(NSub(stop, start), num - 1))))]

(* Boundaries.square_grid.  The result is a record: err names the exception *)
(* raised ("none" when the call returns), xi and yi are the axis            *)
(* coordinates, shape = <<rows, cols>> is Xi.shape, and grid is the flat    *)
(* row-major list of <<x, y>> grid points (np.column_stack of the ravelled  *)
(* meshgrid).                                                               *)
square_grid(bin_size, x_extent, y_extent, x_min, x_max, y_min, y_max) ==
    IF bin_size = 0
    THEN [err |-> "ZeroDivisionError", xi |-> <<>>, yi |-> <<>>,
          shape |-> <<0, 0>>, grid |-> <<>>]
    ELSE
    LET nx  == CeilDiv(x_extent, bin_size)
        d_x == (nx * bin_size) - x_extent
        ny  == CeilDiv(y_extent, bin_size)
        d_y == (ny * bin_size) - y_extent
    IN  IF nx < 0 \/ ny < 0
        THEN [err |-> "ValueError", xi |-> <<>>, yi |-> <<>>,
              shape |-> <<0, 0>>, grid |-> <<>>]
        ELSE
        LET xi == linspace(NSub(Num(x_min), NDivInt(Num(d_x), 2)),
                           NAdd(Num(x_max), NDivInt(Num(d_x), 2)), nx)
            yi == linspace(NSub(Num(y_min), NDivInt(Num(d_y), 2)),
                           NAdd(Num(y_max), NDivInt(Num(d_y), 2)), ny)
        IN  [err |-> "none", xi |-> xi, yi |-> yi, shape |-> <<ny, nx>>,
             grid |-> [i \in 1..(nx * ny) |->
                          <<xi[((i - 1) % nx) + 1], yi[((i - 1) \div nx) + 1]>>]]

---------------------------------------------------------------------------
(* np.cos(np.deg2rad(a)) and np.sin(np.deg2rad(a)) for the angles a (in     *)
(* degrees) that np.linspace(0, 180 - 180/n, n) yields for n = 1, 2, 3.     *)
(* The cosine of 90 degrees is the float 6.1e-17, the positive              *)
(* infinitesimal eps of the model; the other values are the exact ones.     *)
CosDeg(a) ==
    CASE NEq(a, Num(0))   -> <<1, 0, 0, 1>>
      [] NEq(a, Num(60))  -> <<1, 0, 0, 2>>
      [] NEq(a, Num(90))  -> <<0, 0, 1, 1>>
      [] NEq(a, Num(120)) -> <<-1, 0, 0, 2>>

SinDeg(a) ==
    CASE NEq(a, Num(0))   -> <<0, 0, 0, 1>>
      [] NEq(a, Num(60))  -> <<0, 1, 0, 2>>
      [] NEq(a, Num(90))  -> <<1, 0, 0, 1>>
      [] NEq(a, Num(120)) -> <<0, 1, 0, 2>>

(* Boundaries.bisect(r, a) with offset = None: the line <<p, q>> through    *)
(* the origin, p = (cos(a) * r, sin(a) * r), q = -p.                        *)
bisect(r, a) ==
    LET p == <<NMul(CosDeg(a), Num(r)), NMul(SinDeg(a), Num(r))>>
    IN  <<p, <<NNeg(p[1]), NNeg(p[2])>>>>

\* np.linspace(0, 180 - (180 / n_angles), n_angles): the angles in degrees
angle_family(n_angles) ==
    linspace(Num(0), NSub(Num(180), NDivInt(Num(180), n_angles)), n_angles)

\* lines = [self.bisect(radius, a) for a in np.linspace(...)]
make_lines(radius, n_angles) ==
    [j \in 1..n_angles |-> bisect(radius, angle_family(n_angles)[j])]

VSub(a, b) == <<NSub(a[1], b[1]), NSub(a[2], b[2])>>

\* np.cross of two plane vectors
cross(a, b) == NSub(NMul(a[1], b[2]), NMul(a[2], b[1]))

\* isabove(p, line) of _worker_bisect, for one centred point p
isabove(p, line) == NSign(cross(VSub(p, line[1]), VSub(line[2], line[1]))) < 0

\* a point of a gene, given in integer coordinates, as a pair of numbers
Pt(c) == <<Num(c[1]), Num(c[2])>>

\* cc = c - g: the point centred on the grid point (the mutant leaves it)
centre_skipped(c, g) == c

centre(c, g) == VSub(c, g)

\* tree.query_radius(grid, radius) for one grid point g: the indices of the
\* points at Euclidean distance <= radius from g (the boundary included; none
\* for a negative radius).
\* Grid coordinates are rationals g[1][1]/g[1][4], g[2][1]/g[2][4] and point
\* coordinates are integers, so the comparison is made on cleared fractions.
query_radius(points, g, radius) ==
    {k \in 1..Len(points) :
        radius >= 0 /\
        LET dx == points[k][1] * g[1][4] - g[1][1]
            dy == points[k][2] * g[2][4] - g[2][1]
        IN  dx * dx * g[2][4] * g[2][4] + dy * dy * g[1][4] * g[1][4]
              <= radius * radius * g[1][4] * g[1][4] * g[2][4] * g[2][4]}

(* _worker_bisect(points, grid, radius, lines, n_angles).  KDTree(points)   *)
(* raises ValueError for an empty point set and query_radius raises it for  *)
(* an empty grid.  Otherwise count[i] is the number of points within radius *)
(* of grid point i, and angle_counts[i][j] the number of those above line j *)
(* (the row stays 0 when the grid point has no point within radius).        *)
_worker_bisect(points, a_grid, radius, a_lines, n_angles) ==
    IF Len(points) = 0 \/ Len(a_grid) = 0
    THEN [err |-> "ValueError", angle_counts |-> <<>>, count |-> <<>>]
    ELSE
    LET index == [i \in 1..Len(a_grid) |-> query_radius(points, a_grid[i], radius)]
    IN  [err |-> "none",
         count |-> [i \in 1..Len(a_grid) |-> Cardinality(index[i])],
         angle_counts |->
             [i \in 1..Len(a_grid) |->
                 [j \in 1..n_angles |->
                     IF j <= Len(a_lines)
                     THEN Cardinality(
                            {k \in index[i] :
                                isabove(centre(Pt(points[k]), a_grid[i]), a_lines[j])})
                     ELSE 0]]]

---------------------------------------------------------------------------
(* Arrays.  A one-dimensional array is a sequence; a two-dimensional array *)
(* of shape <<rows, cols>> is the sequence of its rows.                    *)

RECURSIVE SumSeq(_)
SumSeq(s) == IF s = <<>> THEN 0 ELSE s[1] + SumSeq(Tail(s))

\* a.reshape(rows, cols) of a flat array, row-major
reshape(flat, rows, cols) ==
    [r \in 1..rows |-> [c \in 1..cols |-> flat[(r - 1) * cols + c]]]

\* a.ravel() of a two-dimensional array with cols columns
ravel(a, cols) ==
    [i \in 1..(Len(a) * cols) |-> a[((i - 1) \div cols) + 1][((i - 1) % cols) + 1]]

\* the positions of the true entries of a flat boolean array, ascending
RECURSIVE TruePositions(_, _)
TruePositions(filt, from) ==
    IF from > Len(filt) THEN <<>>
    ELSE IF filt[from] THEN <<from>> \o TruePositions(filt, from + 1)
    ELSE TruePositions(filt, from + 1)

\* a[filt] for a flat boolean array filt: the entries at its true positions
mask_select(a, filt) ==
    LET pos == TruePositions(filt, 1)
    IN  [k \in 1..Len(pos) |-> a[pos[k]]]

(* image = np.zeros(shape); image[filt_grid] = values: the k-th true entry *)
(* of the mask in row-major order receives values[k], the rest stays 0.    *)
(* In the mutant the values land in column-major order of the true entries.*)
RECURSIVE TruePositionsColMajor(_, _, _, _)
TruePositionsColMajor(filt, rows, cols, from) ==
    IF from > rows * cols THEN <<>>
    ELSE LET i == ((from - 1) % rows) * cols + ((from - 1) \div rows) + 1
         IN  IF filt[i]
             THEN <<i>> \o TruePositionsColMajor(filt, rows, cols, from + 1)
             ELSE TruePositionsColMajor(filt, rows, cols, from + 1)

mask_scatter_colmajor(a_shape, mask, values) ==
    LET filt == ravel(mask, a_shape[2])
        pos  == TruePositionsColMajor(filt, a_shape[1], a_shape[2], 1)
    IN  reshape([i \in 1..(a_shape[1] * a_shape[2]) |->
                    IF filt[i]
                    THEN values[CHOOSE k \in 1..Len(pos) : pos[k] = i]
                    ELSE 0],
                a_shape[1], a_shape[2])

mask_scatter(a_shape, mask, values) ==
    LET filt == ravel(mask, a_shape[2])
        pos  == TruePositions(filt, 1)
    IN  reshape([i \in 1..(a_shape[1] * a_shape[2]) |->
                    IF filt[i]
                    THEN values[CHOOSE k \in 1..Len(pos) : pos[k] = i]
                    ELSE 0],
                a_shape[1], a_shape[2])

(* scipy.ndimage.binary_erosion(mask, iterations = n) with its defaults:   *)
(* the structuring element is generate_binary_structure(2, 1), the cross   *)
(* of a pixel and its four row/column neighbours, and border_value = 0, so *)
(* a neighbour outside the array counts as false.  One step keeps a pixel  *)
(* iff it and its four neighbours are true.  The mutant uses the full 3x3  *)
(* square (8-connected) instead.                                           *)
InMask(mask, r, c) ==
    /\ r >= 1 /\ r <= Len(mask)
    /\ c >= 1 /\ c <= Len(mask[1])
    /\ mask[r][c]

erode_step_square(mask) ==
    [r \in 1..Len(mask) |->
        [c \in 1..Len(mask[r]) |->
            \A dr \in -1..1 : \A dc \in -1..1 : InMask(mask, r + dr, c + dc)]]

erode_step(mask) ==
    [r \in 1..Len(mask) |->
        [c \in 1..Len(mask[r]) |->
            /\ InMask(mask, r, c)
            /\ InMask(mask, r - 1, c) /\ InMask(mask, r + 1, c)
            /\ InMask(mask, r, c - 1) /\ InMask(mask, r, c + 1)]]

\* iterations < 1: the erosion is repeated until the result no longer changes
RECURSIVE erode_fix(_)
erode_fix(mask) ==
    IF erode_step(mask) = mask THEN mask ELSE erode_fix(erode_step(mask))

RECURSIVE erode_times(_, _)
erode_times(mask, n) ==
    IF n = 0 THEN mask ELSE erode_times(erode_step(mask), n - 1)

binary_erosion(mask, iterations) ==
    IF iterations < 1 THEN erode_fix(mask) ELSE erode_times(mask, iterations)

---------------------------------------------------------------------------
(* distance.euclidean(u, v) of two count vectors is the square root of an  *)
(* integer.  The model keeps that integer (the squared distance): the      *)
(* square root is strictly increasing, so maxima, their positions and      *)
(* equality with 0 are those of the distances themselves.                  *)
euclidean(u, v) == SumSeq([g \in 1..Len(u) |-> (u[g] - v[g]) * (u[g] - v[g])])

\* dist.max()
seq_max(dist) == CHOOSE m \in {dist[j] : j \in 1..Len(dist)} :
                    \A j \in 1..Len(dist) : dist[j] <= m

\* the mutant returns the last index of the maximum
argmax_last(dist) ==
    LET m == seq_max(dist)
    IN  (CHOOSE j \in 1..Len(dist) :
            dist[j] = m /\ \A k \in (j + 1)..Len(dist) : dist[k] # m) - 1

\* dist.argmax(): the first index of the maximum, counted from 0
argmax(dist) ==
    LET m == seq_max(dist)
    IN  (CHOOSE j \in 1..Len(dist) :
            dist[j] = m /\ \A k \in 1..(j - 1) : dist[k] # m) - 1

\* d[:, j] of a (gene x angle) matrix
column(d, j) == [g \in 1..Len(d) |-> d[g][j]]

(* _worker_angle(n_angles, d1, d2) for n_angles >= 1: <<dist.max(),        *)
(* dist.argmax()>> with dist[j] = euclidean(d1[:, j], d2[:, j]).           *)
_worker_angle(n_angles, d1, d2) ==
    LET dist == [j \in 1..n_angles |-> euclidean(column(d1, j), column(d2, j))]
    IN  <<seq_max(dist), argmax(dist)>>

---------------------------------------------------------------------------
(* Specification of square_grid alone: every call with bounded arguments.  *)

MaxBin == 3
MaxCoord == 6

GridCalls ==
    [fn : {"square_grid"}, bin_size : (0 - MaxBin)..MaxBin,
     x_min : 0..1, x_max : 1..MaxCoord, y_min : 0..1, y_max : 1..MaxCoord]

InitGrid ==
    /\ BMIdle
    /\ call \in GridCalls
    /\ ret = [st |-> "pending"]

CallSquareGrid ==
    /\ call.fn = "square_grid"
    /\ ret.st = "pending"
    /\ LET r == square_grid(call.bin_size, call.x_max - call.x_min,
                            call.y_max - call.y_min, call.x_min, call.x_max,
                            call.y_min, call.y_max)
       IN  ret' = [st |-> IF r.err = "none" THEN "returned" ELSE "raised",
                   err |-> r.err, xi |-> r.xi, yi |-> r.yi,
                   shape |-> r.shape, grid |-> r.grid]
    /\ UNCHANGED <<call, bmvars>>

NextGrid == CallSquareGrid

SpecGrid == InitGrid /\ [][NextGrid]_vars

(* C1: for bin_size > 0 the distance between consecutive grid coordinates   *)
(* returned by square_grid equals bin_size along each axis that has at      *)
(* least two coordinates.                                                   *)
C1_SpacingIsBinSize ==
    (ret.st = "returned" /\ call.fn = "square_grid" /\ call.bin_size > 0) =>
        /\ \A i \in 1..(Len(ret.xi) - 1) :
              NEq(NSub(ret.xi[i + 1], ret.xi[i]), Num(call.bin_size))
        /\ \A i \in 1..(Len(ret.yi) - 1) :
              NEq(NSub(ret.yi[i + 1], ret.yi[i]), Num(call.bin_size))

(* C6 (square_grid part): a call of square_grid with bin_size <= 0 never    *)
(* returns a result; it ends in an error.                                   *)
C6_NonPositiveBinSizeRaises ==
    (ret.st # "pending" /\ call.fn = "square_grid" /\ call.bin_size <= 0) =>
        ret.st = "raised"

---------------------------------------------------------------------------
(* Specification of _worker_bisect alone: one grid point g, a bounded list *)
(* of points around it, the line family of boundaries_make.                *)

MaxPts == 3

Offsets == (-1..1) \X (-1..1)

SeqsUpTo(S, n) == UNION {[1..k -> S] : k \in 0..n}

NAngles == {1, 2, 3}

BisectCalls ==
    [fn : {"_worker_bisect"}, g : {<<1, 2>>},
     offs : SeqsUpTo(Offsets, MaxPts), radius : {1, 2}, n_angles : NAngles]

\* the points of the call: the grid point plus each offset
CallPoints(c) ==
    [k \in 1..Len(c.offs) |-> <<c.g[1] + c.offs[k][1], c.g[2] + c.offs[k][2]>>]

InitBisect ==
    /\ BMIdle
    /\ call \in BisectCalls
    /\ ret = [st |-> "pending"]

CallWorkerBisect ==
    /\ call.fn = "_worker_bisect"
    /\ ret.st = "pending"
    /\ LET r == _worker_bisect(CallPoints(call), <<Pt(call.g)>>, call.radius,
                               make_lines(call.radius, call.n_angles),
                               call.n_angles)
       IN  ret' = [st |-> IF r.err = "none" THEN "returned" ELSE "raised",
                   err |-> r.err, angle_counts |-> r.angle_counts,
                   count |-> r.count]
    /\ UNCHANGED <<call, bmvars>>

NextBisect == CallWorkerBisect

SpecBisect == InitBisect /\ [][NextBisect]_vars

\* as many points at offset -v as at offset v, for every v
Symmetric(offs) ==
    \A v \in Offsets :
        Cardinality({k \in 1..Len(offs) : offs[k] = v}) =
        Cardinality({k \in 1..Len(offs) : offs[k] = <<-v[1], -v[2]>>})

WithinRadius(offs, radius) ==
    \A k \in 1..Len(offs) :
        offs[k][1] * offs[k][1] + offs[k][2] * offs[k][2] <= radius * radius

\* line j of the family is axis-aligned: its angle is 0 or 90 degrees
AxisAligned(n_angles, j) ==
    \/ NEq(angle_family(n_angles)[j], Num(0))
    \/ NEq(angle_family(n_angles)[j], Num(90))

\* the offset v lies on the line through the grid point at the angle of line j
OnLine(v, n_angles, j) ==
    IF NEq(angle_family(n_angles)[j], Num(0)) THEN v[2] = 0 ELSE v[1] = 0

\* the above count and the below count (total - above) at line j
AboveEqualsBelow(j) ==
    ret.angle_counts[1][j] = ret.count[1] - ret.angle_counts[1][j]

---------------------------------------------------------------------------
(* Specification of _worker_angle alone: every pair of (gene x angle)      *)
(* count matrices with bounded entries, for 0 to 2 genes.                  *)

MaxCount == 1

Matrices(n_genes, n_angles, max) == [1..n_genes -> [1..n_angles -> 0..max]]

InitAngle ==
    /\ BMIdle
    /\ \E n_genes \in 0..2 : \E n \in NAngles :
         \E d1 \in Matrices(n_genes, n, MaxCount) :
         \E d2 \in Matrices(n_genes, n, 1) :
            call = [fn |-> "_worker_angle", n_angles |-> n, d1 |-> d1, d2 |-> d2]
    /\ ret = [st |-> "pending"]

CallWorkerAngle ==
    /\ call.fn = "_worker_angle"
    /\ ret.st = "pending"
    /\ LET r == _worker_angle(call.n_angles, call.d1, call.d2)
       IN  ret' = [st |-> "returned", m |-> r[1], j |-> r[2]]
    /\ UNCHANGED <<call, bmvars>>

NextAngle == CallWorkerAngle

SpecAngle == InitAngle /\ [][NextAngle]_vars

\* the squared Euclidean distance between columns k (counted from 0) of the
\* two matrices of the call
ColumnDistance(k) ==
    SumSeq([g \in 1..Len(call.d1) |->
               (call.d1[g][k + 1] - call.d2[g][k + 1])
               * (call.d1[g][k + 1] - call.d2[g][k + 1])])

(* C8: _worker_angle returns (m, j) with m the maximum over all angles of  *)
(* the distance between the columns of d1 and d2 and j the smallest angle  *)
(* index at which the distance equals m; identical matrices give (0, 0).   *)
C8_MaxAndFirstArgmax ==
    (ret.st = "returned" /\ call.fn = "_worker_angle") =>
        /\ ret.j \in 0..(call.n_angles - 1)
        /\ ColumnDistance(ret.j) = ret.m
        /\ \A k \in 0..(call.n_angles - 1) : ColumnDistance(k) <= ret.m
        /\ \A k \in 0..(ret.j - 1) : ColumnDistance(k) < ret.m
        /\ (call.d1 = call.d2 => ret.m = 0 /\ ret.j = 0)

\* two genes, three angles, the maximum reached at the second and the third
\* angle but not at the first: the second is reported
C8_Witness ==
    /\ ret.st = "returned" /\ call.fn = "_worker_angle"
    /\ Len(call.d1) = 2 /\ call.n_angles = 3
    /\ ColumnDistance(0) < ColumnDistance(1)
    /\ ColumnDistance(1) = ColumnDistance(2)
    /\ ret.j = 1 /\ ret.m > 0

---------------------------------------------------------------------------
(* Boundaries.boundaries_make, one run, with normalize = False (the        *)
(* default).  The two dask.compute calls run the delayed tasks in any      *)
(* order and return when all of them have finished; a task that raises     *)
(* makes dask.compute raise.                                               *)

MaxGenePts == 3

\* the elements of a set of integers as an ascending sequence
RECURSIVE SortedSeq(_)
SortedSeq(S) ==
    IF S = {} THEN <<>>
    ELSE LET lo == CHOOSE x \in S : \A y \in S : x <= y
         IN  <<lo>> \o SortedSeq(S \ {lo})

\* the subsequences of pal with 1 to n elements (a gene of the dataset has
\* at least one molecule)
SubSeqs(pal, n) ==
    {[k \in 1..Cardinality(S) |-> pal[SortedSeq(S)[k]]] :
        S \in {T \in SUBSET (1..Len(pal)) : Cardinality(T) \in 1..n}}

(* The modelled datasets have the bounding box [0, x_max] x [0, 96] and    *)
(* are run with bin_size 24: the grid has 4 rows and 4 columns 32 apart    *)
(* (x_max = 96) or 5 columns 30 apart (x_max = 120).  Molecules lie at     *)
(* centres of grid cells, 22.6 or 21.9 from the four corners of the cell.  *)
Palette(x_max) ==
    IF x_max = 96
    THEN << <<16, 16>>, <<48, 16>>, <<80, 16>>, <<16, 48>>, <<48, 48>>,
            <<80, 48>>, <<16, 80>>, <<48, 80>>, <<80, 80>> >>
    ELSE << <<15, 16>>, <<45, 16>>, <<75, 16>>, <<15, 48>>, <<45, 48>>,
            <<75, 48>>, <<15, 80>>, <<45, 80>>, <<75, 80>> >>

Dataset(x_max, bin_size, radius, n_angles, unique_genes, gene_selection, pa, pb) ==
    [bin_size |-> bin_size, radius |-> radius, n_angles |-> n_angles,
     x_min |-> 0, x_max |-> x_max, y_min |-> 0, y_max |-> 96,
     unique_genes |-> unique_genes,
     gene_selection |-> gene_selection,     \* <<>> is None, <<l>> is the list l
     points |-> [A |-> pa, B |-> pb]]

\* <<x_max, radius, n_angles>> of the runs with bin_size = 24: radius 16
\* reaches no molecule, radius 24 asks for one erosion step, radius 32 for two
Configs ==
    {<<96, 24, 1>>, <<96, 24, 2>>, <<96, 24, 3>>, <<96, 16, 2>>, <<96, 32, 2>>,
     <<120, 24, 2>>, <<120, 24, 3>>}

\* <<bin_size, radius>> of the runs with a non-positive parameter
DegenerateParameters ==
    {<<0, 24>>, <<-24, 24>>, <<-200, 24>>, <<24, 0>>, <<24, -24>>}

Datasets ==
    UNION {
      {Dataset(c[1], 24, c[2], c[3], <<"A">>, <<>>, pa, <<>>) :
           pa \in SubSeqs(Palette(c[1]), MaxGenePts)}
      \cup
      {Dataset(c[1], 24, c[2], c[3], <<"A">>, << <<>> >>, pa, <<>>) :
           pa \in SubSeqs(Palette(c[1]), 1)}
      \cup
      {Dataset(c[1], 24, c[2], c[3], <<"A", "B">>, <<>>, pa,
               <<Palette(c[1])[3]>>) :
           pa \in SubSeqs(Palette(c[1]), MaxGenePts)}
      : c \in Configs}
    \cup
    UNION {
      {Dataset(96, p[1], p[2], 2, <<"A">>, sel, pa, <<>>) :
           pa \in SubSeqs(Palette(96), 1), sel \in {<<>>, << <<>> >>}}
      : p \in DegenerateParameters}

\* self.get_gene(g)
get_gene(d, g) == d.points[g]

\* what a task holds before it has run: no molecule counted anywhere
no_result(n_grid, n_angles) ==
    [err |-> "none", count |-> [i \in 1..n_grid |-> 0],
     angle_counts |-> [i \in 1..n_grid |-> [j \in 1..n_angles |-> 0]]]

Init ==
    /\ CallIdle
    /\ ds \in Datasets
    /\ pc = "start" /\ err = "none"
    /\ grid = <<>> /\ shape = <<0, 0>> /\ lines = <<>> /\ genes = <<>>
    /\ tasks1 = <<>> /\ results = <<>> /\ filt_grid = <<>>
    /\ count_matrix = <<>> /\ stack = <<>> /\ stack_other = <<>>
    /\ grid_filt = <<>> /\ tasks2 = <<>> /\ results2 = <<>> /\ image = <<>>

\* lines 208-220: the grid, the lines, the genes to run
BMStart ==
    /\ pc = "start"
    /\ LET r == square_grid(ds.bin_size, ds.x_max - ds.x_min, ds.y_max - ds.y_min,
                            ds.x_min, ds.x_max, ds.y_min, ds.y_max)
       IN  \/ /\ r.err # "none"
              /\ pc' = "raised" /\ err' = r.err
              /\ UNCHANGED <<grid, shape, lines, genes>>
           \/ /\ r.err = "none"
              /\ grid' = r.grid /\ shape' = r.shape
              /\ lines' = make_lines(ds.radius, ds.n_angles)
              /\ genes' = IF ds.gene_selection = <<>> THEN ds.unique_genes
                          ELSE ds.gene_selection[1]
              /\ pc' = "submit1" /\ UNCHANGED err
    /\ UNCHANGED <<callvars, ds, tasks1, results, filt_grid, count_matrix, stack,
                   stack_other, grid_filt, tasks2, results2, image>>

\* lines 222-232: one delayed _worker_bisect per gene, handed to dask.compute
BMSubmitBisect ==
    /\ pc = "submit1"
    /\ tasks1' = [g \in 1..Len(genes) |-> "pending"]
    /\ results' = [g \in 1..Len(genes) |-> no_result(Len(grid), ds.n_angles)]
    /\ pc' = "compute1"
    /\ UNCHANGED <<callvars, ds, err, grid, shape, lines, genes, filt_grid,
                   count_matrix, stack, stack_other, grid_filt, tasks2, results2,
                   image>>

\* a worker process takes the task of gene g
BisectStart(g) ==
    /\ pc = "compute1" /\ tasks1[g] = "pending"
    /\ tasks1' = [tasks1 EXCEPT ![g] = "running"]
    /\ UNCHANGED <<callvars, ds, pc, err, grid, shape, lines, genes, results,
                   filt_grid, count_matrix, stack, stack_other, grid_filt, tasks2,
                   results2, image>>

\* the task of gene g ends: with its result, or with the exception it raised,
\* which dask.compute raises in boundaries_make
BisectFinish(g) ==
    /\ pc = "compute1" /\ tasks1[g] = "running"
    /\ LET r == _worker_bisect(get_gene(ds, genes[g]), grid, ds.radius, lines,
                               ds.n_angles)
       IN  \/ /\ r.err = "none"
              /\ tasks1' = [tasks1 EXCEPT ![g] = "done"]
              /\ results' = [results EXCEPT ![g] = r]
              /\ UNCHANGED <<pc, err>>
           \/ /\ r.err # "none"
              /\ tasks1' = [tasks1 EXCEPT ![g] = "failed"]
              /\ pc' = "raised" /\ err' = r.err
              /\ UNCHANGED results
    /\ UNCHANGED <<callvars, ds, grid, shape, lines, genes, filt_grid,
                   count_matrix, stack, stack_other, grid_filt, tasks2, results2,
                   image>>

\* dask.compute(*results) returns: every task has finished (the mutant
\* returns as soon as one has)
Phase1Partly == \E g \in 1..Len(tasks1) : tasks1[g] = "done"

Phase1Complete == \A g \in 1..Len(tasks1) : tasks1[g] = "done"

\* filt = count_matrix.sum(axis=0) > 0, before the erosion
raw_filter(res, n_grid) ==
    [i \in 1..n_grid |->
        SumSeq([g \in 1..Len(res) |->
                   IF i <= Len(res[g].count) THEN res[g].count[i] ELSE 0]) > 0]

\* lines 240-241: the reshaped and eroded mask
eroded_filter(res, n_grid, a_shape, radius, bin_size) ==
    LET raw == CHOOSE f \in {raw_filter(res, n_grid)} : TRUE
    IN  binary_erosion(reshape(raw, a_shape[1], a_shape[2]),
                       CeilDiv(radius, bin_size))

\* lines 235-252: the validity mask and the filtered counts of both halves.
\* With no gene, count_matrix is an empty one-dimensional array: its sum is
\* a scalar that cannot be reshaped to the grid (ValueError), or, for a
\* grid of one point, count_matrix[:, filt] has too many indices (IndexError).
BMFilter ==
    /\ pc = "compute1" /\ Phase1Complete
    /\ \/ /\ Len(genes) = 0
          /\ pc' = "raised"
          /\ err' = IF shape[1] * shape[2] = 1 THEN "IndexError" ELSE "ValueError"
          /\ UNCHANGED <<filt_grid, count_matrix, stack, stack_other, grid_filt>>
       \/ /\ Len(genes) > 0
          /\ \E fg \in {eroded_filter(results, Len(grid), shape, ds.radius,
                                      ds.bin_size)} :
             \E filt \in {ravel(fg, shape[2])} :
             \E rac \in {[g \in 1..Len(genes) |->
                            mask_select(results[g].angle_counts, filt)]} :
             \E cm \in {[g \in 1..Len(genes) |->
                           mask_select(results[g].count, filt)]} :
                 /\ filt_grid' = fg
                 /\ count_matrix' = cm
                 /\ grid_filt' = mask_select(grid, filt)
                 /\ stack' = rac
                 /\ stack_other' =
                        [g \in 1..Len(genes) |->
                            [i \in 1..Len(cm[g]) |->
                                [j \in 1..ds.n_angles |-> cm[g][i] - rac[g][i][j]]]]
          /\ pc' = "submit2" /\ UNCHANGED err
    /\ UNCHANGED <<callvars, ds, grid, shape, lines, genes, tasks1, results,
                   tasks2, results2, image>>

\* lines 263-273: one delayed _worker_angle per column of count_matrix
BMSubmitAngle ==
    /\ pc = "submit2"
    /\ tasks2' = [i \in 1..Len(count_matrix[1]) |-> "pending"]
    /\ results2' = [i \in 1..Len(count_matrix[1]) |-> <<>>]
    /\ pc' = "compute2"
    /\ UNCHANGED <<callvars, ds, err, grid, shape, lines, genes, tasks1, results,
                   filt_grid, count_matrix, stack, stack_other, grid_filt, image>>

AngleStart(i) ==
    /\ pc = "compute2" /\ tasks2[i] = "pending"
    /\ tasks2' = [tasks2 EXCEPT ![i] = "running"]
    /\ UNCHANGED <<callvars, ds, pc, err, grid, shape, lines, genes, tasks1,
                   results, filt_grid, count_matrix, stack, stack_other, grid_filt,
                   results2, image>>

\* d1 = stack[:, i, :], d2 = stack_other[:, i, :]
AngleFinish(i) ==
    /\ pc = "compute2" /\ tasks2[i] = "running"
    /\ tasks2' = [tasks2 EXCEPT ![i] = "done"]
    /\ results2' = [results2 EXCEPT ![i] =
                       _worker_angle(ds.n_angles,
                                     [g \in 1..Len(stack) |-> stack[g][i]],
                                     [g \in 1..Len(stack_other) |-> stack_other[g][i]])]
    /\ UNCHANGED <<callvars, ds, pc, err, grid, shape, lines, genes, tasks1,
                   results, filt_grid, count_matrix, stack, stack_other, grid_filt,
                   image>>

Phase2Complete == \A i \in 1..Len(tasks2) : tasks2[i] = "done"

\* angle_used = np.linspace(0, 180 - (180 / n_angles), n_angles), line 278
\* (the mutant runs the angles up to 180)
angle_used_to_180(n_angles) == linspace(Num(0), Num(180), n_angles)

angle_used(n_angles) ==
    linspace(Num(0), NSub(Num(180), NDivInt(Num(180), n_angles)), n_angles)

\* lines 274-285: the result array, the angles in degrees, the image.  With
\* no valid grid point np.array(()) is one-dimensional and results2[:, 1]
\* raises IndexError.
BMFinish ==
    /\ pc = "compute2" /\ Phase2Complete
    /\ \/ /\ Len(tasks2) = 0
          /\ pc' = "raised" /\ err' = "IndexError"
          /\ UNCHANGED <<results2, image>>
       \/ /\ Len(tasks2) > 0
          /\ results2' = [i \in 1..Len(results2) |->
                             <<results2[i][1],
                               angle_used(ds.n_angles)[results2[i][2] + 1]>>]
          /\ image' = mask_scatter(shape, filt_grid,
                                   [i \in 1..Len(results2) |-> results2[i][1]])
          /\ pc' = "returned" /\ UNCHANGED err
    /\ UNCHANGED <<callvars, ds, grid, shape, lines, genes, tasks1, results,
                   filt_grid, count_matrix, stack, stack_other, grid_filt, tasks2>>

Next ==
    \/ BMStart
    \/ BMSubmitBisect
    \/ \E g \in 1..Len(tasks1) : BisectStart(g)
    \/ \E g \in 1..Len(tasks1) : BisectFinish(g)
    \/ BMFilter
    \/ BMSubmitAngle
    \/ \E i \in 1..Len(tasks2) : AngleStart(i)
    \/ \E i \in 1..Len(tasks2) : AngleFinish(i)
    \/ BMFinish

Spec == Init /\ [][Next]_vars

---------------------------------------------------------------------------
(* Properties of one run of boundaries_make.                               *)

\* the number of true entries of a two-dimensional mask
CountTrue(mask) ==
    Cardinality({rc \in (1..Len(mask)) \X (1..shape[2]) : mask[rc[1]][rc[2]]})

\* the run has passed the filter of lines 235-252
Filtered == pc \in {"submit2", "compute2", "returned"}

AngleTaskExists == \E i \in 1..Len(tasks2) : tasks2[i] \in {"pending", "running", "done"}

(* C2: no _worker_angle task is created or started before every            *)
(* _worker_bisect task has completed and the eroded filter has been        *)
(* computed from the totals of all of them; the number of _worker_angle    *)
(* tasks equals the number of true entries of that filter.                 *)
C2_AngleTasksAfterAllBisectTasks ==
    /\ (Filtered \/ AngleTaskExists) =>
          /\ Len(tasks1) = Len(genes)
          /\ \A g \in 1..Len(genes) : tasks1[g] = "done"
          /\ filt_grid = eroded_filter(results, Len(grid), shape, ds.radius,
                                       ds.bin_size)
    /\ pc = "submit2" =>
          \A g \in 1..Len(genes) :
              results[g] = _worker_bisect(get_gene(ds, genes[g]), grid,
                                          ds.radius, lines, ds.n_angles)
    /\ pc \in {"compute2", "returned"} => Len(tasks2) = CountTrue(filt_grid)
    /\ pc \in {"start", "submit1", "compute1", "submit2"} => ~AngleTaskExists

\* two genes, a filter with true and false entries, an angle task running
\* while another one is still pending
C2_Witness ==
    /\ pc = "compute2" /\ Len(genes) = 2
    /\ CountTrue(filt_grid) >= 2 /\ CountTrue(filt_grid) < Len(grid)
    /\ \E i, k \in 1..Len(tasks2) : tasks2[i] = "running" /\ tasks2[k] = "pending"

\* iterations = math.ceil(radius / bin_size) of line 241
Iterations == CeilDiv(ds.radius, ds.bin_size)

\* the grid point in row r and column c exists and has a molecule of a gene
\* of the run within radius
RawValid(r, c) ==
    /\ r \in 1..shape[1] /\ c \in 1..shape[2]
    /\ \E g \in 1..Len(genes) :
          query_radius(get_gene(ds, genes[g]), grid[(r - 1) * shape[2] + c],
                       ds.radius) # {}

\* every grid position at most n steps along rows and columns from (r, c) is
\* raw-valid: what n erosions with the 4-connected cross leave
CrossValid(r, c, n) ==
    \A dr \in -n..n : \A dc \in -n..n :
        Abs(dr) + Abs(dc) <= n => RawValid(r + dr, c + dc)

\* every grid position at most n rows and n columns from (r, c) is raw-valid:
\* what n erosions with the 8-connected square leave
SquareValid(r, c, n) ==
    \A dr \in -n..n : \A dc \in -n..n : RawValid(r + dr, c + dc)

(* C3, as the code has it: the validity mask is the raw mask eroded         *)
(* ceil(radius/bin_size) times with the 4-connected cross, outside of the   *)
(* grid counting as false: a grid point stays iff every position within    *)
(* that many row/column steps is raw-valid.  With fewer than one iteration *)
(* the erosion runs until nothing changes, which leaves no point.          *)
C3_MaskIsCrossErosion ==
    Filtered =>
        \A r \in 1..shape[1] : \A c \in 1..shape[2] :
            filt_grid[r][c] <=> (Iterations >= 1 /\ CrossValid(r, c, Iterations))

(* C3, as claimed: the validity mask is the raw mask eroded                 *)
(* ceil(radius/bin_size) times with the 8-connected square: a grid point   *)
(* stays iff it and all its row/column/diagonal neighbours stay.           *)
C3_MaskIsSquareErosion ==
    (Filtered /\ Iterations >= 1) =>
        \A r \in 1..shape[1] : \A c \in 1..shape[2] :
            filt_grid[r][c] <=> SquareValid(r, c, Iterations)

\* a returned mask keeps a grid point that has a diagonal neighbour without
\* any molecule within radius
C3_Witness ==
    /\ pc = "returned" /\ Iterations = 1
    /\ \E r \in 1..shape[1] : \E c \in 1..shape[2] :
          /\ filt_grid[r][c]
          /\ ~RawValid(r - 1, c + 1)

\* the run is given no gene, or its data leaves no grid point valid
NoGene == ds.gene_selection = << <<>> >>

NoValidPoint ==
    \A r \in 1..shape[1] : \A c \in 1..shape[2] :
        ~(Iterations >= 1 /\ CrossValid(r, c, Iterations))

AllZero(a) == \A r \in 1..Len(a) : \A c \in 1..Len(a[r]) : a[r][c] = 0

(* C4: with an empty gene list, or with data that leaves no grid point      *)
(* valid, boundaries_make (called with positive bin_size and radius)       *)
(* returns without raising, with an all-zero image and an all-false mask.  *)
C4_DegenerateInputReturnsZeroImage ==
    (/\ ds.bin_size > 0 /\ ds.radius > 0
     /\ pc \in {"returned", "raised"}
     /\ NoGene \/ NoValidPoint) =>
        /\ pc = "returned"
        /\ AllZero(image)
        /\ CountTrue(filt_grid) = 0

\* the number of true entries of the mask up to and including (r, c), in
\* row-major order
Rank(mask, r, c) ==
    Cardinality({rc \in (1..shape[1]) \X (1..shape[2]) :
                    /\ mask[rc[1]][rc[2]]
                    /\ rc[1] < r \/ (rc[1] = r /\ rc[2] <= c)})

(* C5: after boundaries_make returns, results and grid_filt have one row    *)
(* per true entry of filt_grid, image has the shape `shape`, image at the  *)
(* k-th true position of filt_grid in row-major order is results[k, 0] and *)
(* image is 0 at every false position.                                     *)
C5_ImageIsScatterOfResults ==
    pc = "returned" =>
        /\ Len(results2) = CountTrue(filt_grid)
        /\ Len(grid_filt) = CountTrue(filt_grid)
        /\ Len(image) = shape[1]
        /\ \A r \in 1..shape[1] :
              /\ Len(image[r]) = shape[2]
              /\ \A c \in 1..shape[2] :
                    image[r][c] = IF filt_grid[r][c]
                                  THEN results2[Rank(filt_grid, r, c)][1]
                                  ELSE 0

\* two valid grid points with different distances, the first in row-major
\* order being the second in column-major order
C5_Witness ==
    /\ pc = "returned"
    /\ \E r1, r2 \in 1..shape[1] : \E c1, c2 \in 1..shape[2] :
          /\ r1 < r2 /\ c2 < c1
          /\ filt_grid[r1][c1] /\ filt_grid[r2][c2]
          /\ image[r1][c1] # image[r2][c2]
          /\ image[r1][c1] = results2[Rank(filt_grid, r1, c1)][1]

\* k * (180 / n_angles) degrees
FamilyAngle(k, n_angles) == <<180 * k, 0, 0, n_angles>>

\* the angle index _worker_angle selects for the i-th valid grid point
SelectedIndex(i) ==
    _worker_angle(ds.n_angles, [g \in 1..Len(stack) |-> stack[g][i]],
                  [g \in 1..Len(stack_other) |-> stack_other[g][i]])[2]

(* C9: the bisection lines of a run use the n_angles distinct angles        *)
(* k * (180 / n_angles), k = 0 .. n_angles-1, all in [0, 180); the angle   *)
(* reported for a valid grid point is the angle of that family at the      *)
(* index _worker_angle selected for it.                                    *)
C9_ReportedAngleIsLineAngle ==
    /\ pc \in {"submit1", "compute1", "submit2", "compute2", "returned"} =>
          /\ Len(lines) = ds.n_angles
          /\ \A j \in 1..ds.n_angles :
                /\ lines[j] = bisect(ds.radius, FamilyAngle(j - 1, ds.n_angles))
                /\ NLeq(Num(0), FamilyAngle(j - 1, ds.n_angles))
                /\ NLess(FamilyAngle(j - 1, ds.n_angles), Num(180))
                /\ \A k \in 1..ds.n_angles :
                      k # j => ~NEq(FamilyAngle(j - 1, ds.n_angles),
                                    FamilyAngle(k - 1, ds.n_angles))
    /\ pc = "returned" =>
          \A i \in 1..Len(results2) :
              /\ SelectedIndex(i) \in 0..(ds.n_angles - 1)
              /\ NEq(results2[i][2], FamilyAngle(SelectedIndex(i), ds.n_angles))

\* a run with three angles that reports the second one, 60 degrees, for a
\* valid grid point
C9_Witness ==
    /\ pc = "returned" /\ ds.n_angles = 3
    /\ \E i \in 1..Len(results2) :
          SelectedIndex(i) = 1 /\ NEq(results2[i][2], Num(60))

---------------------------------------------------------------------------
(* Boundaries_Multi.boundaries_make_multi: the loop over self.datasets.    *)
(* call holds the collection and the parameters; ret holds the position of *)
(* the loop (st, d), the dictionary results, and a record of the           *)
(* boundaries_make calls made: events lists the calls and returns in       *)
(* order, outs what each call returned.  The call of a dataset is a run of *)
(* boundaries_make as modelled above, on the variables of that run.        *)

MaxDatasets == 3

DatasetNames == {"s1", "s2"}

\* the molecules of gene A in the modelled datasets: the first two leave one
\* valid grid point each, the third none
MultiPoints ==
    {<<Palette(96)[1], Palette(96)[5]>>, <<Palette(96)[5], Palette(96)[9]>>,
     <<Palette(96)[1]>>}

MultiDatasets ==
    UNION {[1..n -> [dataset_name : DatasetNames, points : MultiPoints]] :
              n \in 0..MaxDatasets}

\* results[key] = val (the mutant is results.setdefault(key, val))
dict_setdefault(dict, key, val) ==
    [k \in DOMAIN dict \cup {key} |-> IF k \in DOMAIN dict THEN dict[k] ELSE val]

dict_set(dict, key, val) ==
    [k \in DOMAIN dict \cup {key} |-> IF k = key THEN val ELSE dict[k]]

InitMulti ==
    /\ call \in [fn : {"boundaries_make_multi"}, datasets : MultiDatasets,
                 bin_size : {24}, radius : {24}, n_angles : {1, 2}]
    /\ ret = [st |-> "loop", d |-> 1, results |-> <<>>, events |-> <<>>,
              outs |-> <<>>]
    /\ BMIdle

\* lines 432-441: the next dataset d; results[d.dataset_name] = {}; the call
\* d.boundaries_make(...) starts
MultiCall ==
    /\ ret.st = "loop" /\ ret.d <= Len(call.datasets)
    /\ LET d == call.datasets[ret.d]
       IN  /\ ret' = [ret EXCEPT !.st = "in_call",
                                 !.results = dict_set(@, d.dataset_name, <<>>),
                                 !.events = Append(@, <<"call", ret.d>>)]
           /\ ds' = Dataset(96, call.bin_size, call.radius, call.n_angles, <<"A">>,
                            <<>>, d.points, <<>>)
    /\ pc' = "start" /\ err' = "none"
    /\ grid' = <<>> /\ shape' = <<0, 0>> /\ lines' = <<>> /\ genes' = <<>>
    /\ tasks1' = <<>> /\ results' = <<>> /\ filt_grid' = <<>>
    /\ count_matrix' = <<>> /\ stack' = <<>> /\ stack_other' = <<>>
    /\ grid_filt' = <<>> /\ tasks2' = <<>> /\ results2' = <<>> /\ image' = <<>>
    /\ UNCHANGED call

\* line 285: what boundaries_make returns
returned_tuple ==
    [result |-> results2, image |-> image, grid |-> grid,
     grid_filt |-> grid_filt, filt_grid |-> filt_grid, shape |-> shape]

\* lines 435-448: the call has returned; its six outputs are stored under
\* the name of the dataset and the loop goes on
MultiStore ==
    /\ ret.st = "in_call" /\ pc = "returned"
    /\ ret' = [ret EXCEPT !.st = "loop", !.d = @ + 1,
                          !.results = dict_set(@, call.datasets[ret.d].dataset_name,
                                               returned_tuple),
                          !.events = Append(@, <<"return", ret.d>>),
                          !.outs = Append(@, returned_tuple)]
    /\ pc' = "idle"
    /\ UNCHANGED <<call, ds, err, grid, shape, lines, genes, tasks1, results,
                   filt_grid, count_matrix, stack, stack_other, grid_filt, tasks2,
                   results2, image>>

\* the call has raised: the exception leaves boundaries_make_multi
MultiRaise ==
    /\ ret.st = "in_call" /\ pc = "raised"
    /\ ret' = [ret EXCEPT !.st = "raised"]
    /\ pc' = "idle"
    /\ UNCHANGED <<call, ds, err, grid, shape, lines, genes, tasks1, results,
                   filt_grid, count_matrix, stack, stack_other, grid_filt, tasks2,
                   results2, image>>

\* line 450: the loop is over, results is returned
MultiReturn ==
    /\ ret.st = "loop" /\ ret.d > Len(call.datasets)
    /\ ret' = [ret EXCEPT !.st = "returned"]
    /\ UNCHANGED <<call, bmvars>>

NextMulti ==
    \/ MultiCall
    \/ BMStart
    \/ BMSubmitBisect
    \/ \E g \in 1..Len(tasks1) : BisectStart(g)
    \/ \E g \in 1..Len(tasks1) : BisectFinish(g)
    \/ BMFilter
    \/ BMSubmitAngle
    \/ \E i \in 1..Len(tasks2) : AngleStart(i)
    \/ \E i \in 1..Len(tasks2) : AngleFinish(i)
    \/ BMFinish
    \/ MultiStore
    \/ MultiRaise
    \/ MultiReturn

SpecMulti == InitMulti /\ [][NextMulti]_vars

\* the name of the k-th dataset of the collection
NameOf(k) == call.datasets[k].dataset_name

\* the last dataset of the collection that carries the name of the k-th
LastNamed(k) ==
    CHOOSE j \in 1..Len(call.datasets) :
        /\ NameOf(j) = NameOf(k)
        /\ \A m \in 1..Len(call.datasets) : NameOf(m) = NameOf(k) => m <= j

\* the calls of boundaries_make so far: dataset 1 called and returned, then
\* dataset 2, and so on, each call ending before the next starts
Sequential ==
    \A e \in 1..Len(ret.events) :
        ret.events[e] = IF e % 2 = 1 THEN <<"call", (e + 1) \div 2>>
                        ELSE <<"return", e \div 2>>

\* the k-th call was made on the k-th dataset with the parameters of
\* boundaries_make_multi
OwnCall(k) ==
    /\ ret.outs[k].grid = square_grid(call.bin_size, 96, 96, 0, 96, 0, 96).grid
    /\ ret.outs[k].shape = square_grid(call.bin_size, 96, 96, 0, 96, 0, 96).shape
    /\ \A r \in 1..ret.outs[k].shape[1] : \A c \in 1..ret.outs[k].shape[2] :
          ret.outs[k].filt_grid[r][c] <=>
             /\ r \in 2..(ret.outs[k].shape[1] - 1)
             /\ c \in 2..(ret.outs[k].shape[2] - 1)
             /\ \A rc \in {<<r, c>>, <<r - 1, c>>, <<r + 1, c>>, <<r, c - 1>>,
                           <<r, c + 1>>} :
                   query_radius(call.datasets[k].points,
                                ret.outs[k].grid[(rc[1] - 1) * ret.outs[k].shape[2]
                                                 + rc[2]],
                                call.radius) # {}
    /\ \A v \in 1..Len(ret.outs[k].result) :
          \E j \in 0..(call.n_angles - 1) :
              NEq(ret.outs[k].result[v][2], FamilyAngle(j, call.n_angles))

(* C10, as the code has it: after boundaries_make_multi returns, the        *)
(* mapping has one entry per distinct dataset name; the entry under the    *)
(* name of a dataset holds the six outputs of the boundaries_make call of  *)
(* the last dataset of the collection that carries that name (its own call *)
(* when no later dataset shares the name), each call being made on its own *)
(* dataset with the parameters of boundaries_make_multi; the datasets are  *)
(* processed one at a time in collection order.                            *)
C10_EntryOfLastDatasetOfName ==
    /\ Sequential
    /\ ret.st = "in_call" =>
          /\ ds.points.A = call.datasets[ret.d].points
          /\ ds.bin_size = call.bin_size /\ ds.radius = call.radius
          /\ ds.n_angles = call.n_angles
    /\ ret.st = "returned" =>
          /\ Len(ret.outs) = Len(call.datasets)
          /\ Len(ret.events) = 2 * Len(call.datasets)
          /\ DOMAIN ret.results = {NameOf(k) : k \in 1..Len(call.datasets)}
          /\ \A k \in 1..Len(call.datasets) :
                /\ OwnCall(k)
                /\ ret.results[NameOf(k)] = ret.outs[LastNamed(k)]

(* C10, as claimed: after boundaries_make_multi returns, every dataset has *)
(* an entry under its name that holds the outputs of its own               *)
(* boundaries_make call, so the mapping holds one entry per dataset; the   *)
(* datasets are processed one at a time in collection order.               *)
C10_EntryOfEveryDataset ==
    /\ Sequential
    /\ ret.st = "returned" =>
          /\ Len(ret.outs) = Len(call.datasets)
          /\ Cardinality(DOMAIN ret.results) = Len(call.datasets)
          /\ \A k \in 1..Len(call.datasets) :
                /\ NameOf(k) \in DOMAIN ret.results
                /\ ret.results[NameOf(k)] = ret.outs[k]

\* three datasets have been processed and returned; the first and the last
\* share a name and differ in their outputs, the second has another name
C10_Witness ==
    /\ ret.st = "returned" /\ Len(call.datasets) = 3
    /\ NameOf(1) = NameOf(3) /\ NameOf(2) # NameOf(1)
    /\ ret.outs[1] # ret.outs[3]
    /\ ret.results[NameOf(1)] = ret.outs[3]
    /\ ret.results[NameOf(2)] = ret.outs[2]

---------------------------------------------------------------------------
(* Boundaries._LBP_worker.  A pixel is <<n>> for the number n and <<>> for *)
(* not-a-number.  The two skimage calls are library code:                  *)
(*  - denoise_nl_means(img, ...) returns an array of the shape of img; its *)
(*    values are not computed here, the call record carries the array the  *)
(*    library returned (any array of that shape, not-a-number included);   *)
(*  - local_binary_pattern(image, P, R, 'var') is computed on the ring of  *)
(*    the 8 neighbours of a pixel, samples outside the image being 0: the  *)
(*    variance of the samples, and not-a-number where that variance is 0.  *)
(*    The variance is kept scaled by P * P so that it stays an integer.    *)

NaN == <<>>

Val(n) == <<n>>

\* np.isnan(x)
isnan(x) == x = NaN

\* a[~mask] = v
assign_outside(a, mask, v) ==
    [r \in 1..Len(a) |-> [c \in 1..Len(a[r]) |-> IF mask[r][c] THEN a[r][c] ELSE v]]

\* the samples of the ring around (r, c), zero outside the image
ring(a, r, c) ==
    [k \in 1..8 |->
        LET dr == <<-1, -1, -1, 0, 0, 1, 1, 1>>[k]
            dc == <<-1, 0, 1, -1, 1, -1, 0, 1>>[k]
        IN  IF r + dr \in 1..Len(a) /\ c + dc \in 1..Len(a[1])
            THEN a[r + dr][c + dc] ELSE Val(0)]

\* local_binary_pattern(a, P, R, 'var') at one pixel: var != 0 gives var (a
\* not-a-number sample makes var not-a-number), var = 0 gives not-a-number
lbp_var(a, r, c) ==
    LET t == ring(a, r, c)
    IN  IF \E k \in 1..8 : isnan(t[k]) THEN NaN
        ELSE LET sum == SumSeq([k \in 1..8 |-> t[k][1]])
                 sq  == SumSeq([k \in 1..8 |-> t[k][1] * t[k][1]])
                 v   == 8 * sq - sum * sum
             IN  IF v # 0 THEN Val(v) ELSE NaN

local_binary_pattern(a) ==
    [r \in 1..Len(a) |-> [c \in 1..Len(a[r]) |-> lbp_var(a, r, c)]]

\* lbp[np.isnan(lbp)] = 0, line 316 (the mutant leaves lbp as it is)
nan_to_zero_skipped(lbp) == lbp

nan_to_zero(lbp) ==
    [r \in 1..Len(lbp) |->
        [c \in 1..Len(lbp[r]) |-> IF isnan(lbp[r][c]) THEN Val(0) ELSE lbp[r][c]]]

\* _LBP_worker(img, mask, ...), lines 298-319; denoised is what
\* denoise_nl_means returned for img
_LBP_worker(img, mask, denoised) ==
    LET denoise == assign_outside(denoised, mask, Val(0))
        lbp     == local_binary_pattern(denoise)
    IN  assign_outside(nan_to_zero(lbp), mask, NaN)

MaxPixel == 1

\* the shape <<rows, cols>> of the modelled channel images
LBPShape == <<2, 2>>

Arrays(a_shape, values) == [1..a_shape[1] -> [1..a_shape[2] -> values]]

\* what denoise_nl_means can return for a pixel
DenoisedValues == {Val(n) : n \in 0..MaxPixel} \cup {NaN}

\* the modelled channel images: the uniform ones and one with a pattern
ChannelImages ==
    {[r \in 1..LBPShape[1] |-> [c \in 1..LBPShape[2] |-> Val(n)]] :
        n \in 0..MaxPixel}
    \cup {[r \in 1..LBPShape[1] |->
             [c \in 1..LBPShape[2] |-> Val((r + c) % (MaxPixel + 1))]]}

InitLBP ==
    /\ call \in [fn : {"_LBP_worker"},
                 img : ChannelImages,
                 mask : Arrays(LBPShape, BOOLEAN),
                 denoised : Arrays(LBPShape, DenoisedValues)]
    /\ ret = [st |-> "pending"]
    /\ BMIdle

CallLBPWorker ==
    /\ call.fn = "_LBP_worker" /\ ret.st = "pending"
    /\ ret' = [st |-> "returned",
               lbp |-> _LBP_worker(call.img, call.mask, call.denoised)]
    /\ UNCHANGED <<call, bmvars>>

NextLBP == CallLBPWorker

SpecLBP == InitLBP /\ [][NextLBP]_vars

\* the texture values before the clean-up of lines 316-317
RawLBP ==
    local_binary_pattern(assign_outside(call.denoised, call.mask, Val(0)))

(* C11: the output of _LBP_worker is not-a-number at exactly the pixels    *)
(* where the mask is false: inside the mask every pixel holds a number, 0  *)
(* where the texture value computed there was not-a-number and that value  *)
(* otherwise; outside the mask every pixel is not-a-number.                *)
C11_NaNExactlyOutsideMask ==
    ret.st = "returned" =>
        /\ Len(ret.lbp) = LBPShape[1]
        /\ \A r \in 1..LBPShape[1] :
              /\ Len(ret.lbp[r]) = LBPShape[2]
              /\ \A c \in 1..LBPShape[2] :
                    /\ isnan(ret.lbp[r][c]) <=> ~call.mask[r][c]
                    /\ call.mask[r][c] =>
                          ret.lbp[r][c] = IF isnan(RawLBP[r][c]) THEN Val(0)
                                          ELSE RawLBP[r][c]

\* a returned output with a pixel outside the mask, a pixel inside it whose
\* texture value was not-a-number, and one inside it with a positive value
C11_Witness ==
    /\ ret.st = "returned"
    /\ \E p, q, u \in (1..LBPShape[1]) \X (1..LBPShape[2]) :
          /\ ~call.mask[p[1]][p[2]]
          /\ call.mask[q[1]][q[2]] /\ isnan(RawLBP[q[1]][q[2]])
          /\ ret.lbp[q[1]][q[2]] = Val(0)
          /\ call.mask[u[1]][u[2]] /\ ~isnan(RawLBP[u[1]][u[2]])
          /\ ret.lbp[u[1]][u[2]][1] > 0

---------------------------------------------------------------------------
(* Boundaries.boundaries_LBP_make.  squarebin is a three-dimensional array *)
(* squarebin[r][c][i], channel last.  call.denoised[i] is what             *)
(* denoise_nl_means returns for channel i.  ret holds the delayed tasks,   *)
(* what each returned, the order in which they completed, and the cube.    *)

MaxChannels == 2

\* squarebin[:, :, i]
channel(squarebin, i) ==
    [r \in 1..Len(squarebin) |-> [c \in 1..Len(squarebin[r]) |-> squarebin[r][c][i]]]

\* np.stack(arrays, axis=2) of arrays of the shape a_shape
stack_axis2(arrays, a_shape) ==
    [r \in 1..a_shape[1] |->
        [c \in 1..a_shape[2] |-> [i \in 1..Len(arrays) |-> arrays[i][r][c]]]]

\* compute(*LBP_results): the results of the tasks in the order the tasks
\* were passed (the mutant yields them in the order they completed)
compute_as_completed(task_results, order) ==
    [k \in 1..Len(task_results) |-> task_results[order[k]]]

compute(task_results, order) ==
    [k \in 1..Len(task_results) |-> task_results[k]]

\* a channel image together with what denoise_nl_means returns for it: the
\* image itself, or not-a-number everywhere
LBPChannels ==
    UNION {{<<img, img>>,
            <<img, [r \in 1..LBPShape[1] |-> [c \in 1..LBPShape[2] |-> NaN]]>>} :
              img \in ChannelImages}

LBPMasks ==
    {[r \in 1..LBPShape[1] |-> [c \in 1..LBPShape[2] |-> TRUE]],
     [r \in 1..LBPShape[1] |-> [c \in 1..LBPShape[2] |-> r # c]]}

LBPMakeCalls ==
    UNION {{[fn |-> "boundaries_LBP_make",
             squarebin |-> stack_axis2([i \in 1..n |-> chs[i][1]], LBPShape),
             denoised |-> [i \in 1..n |-> chs[i][2]],
             mask |-> mask] :
               chs \in [1..n -> LBPChannels], mask \in LBPMasks} :
           n \in 0..MaxChannels}

InitLBPMake ==
    /\ call \in LBPMakeCalls
    /\ ret = [st |-> "start", tasks |-> <<>>, results |-> <<>>, order |-> <<>>,
              err |-> "none", cube |-> <<>>]
    /\ BMIdle

\* lines 365-372: one delayed _LBP_worker per channel, handed to compute
LBPSubmit ==
    /\ call.fn = "boundaries_LBP_make" /\ ret.st = "start"
    /\ LET n_genes == Len(call.squarebin[1][1])
       IN  ret' = [ret EXCEPT !.st = "compute",
                              !.tasks = [i \in 1..n_genes |-> "pending"],
                              !.results = [i \in 1..n_genes |-> <<>>]]
    /\ UNCHANGED <<call, bmvars>>

\* a dask worker takes the task of channel i
LBPTaskStart(i) ==
    /\ call.fn = "boundaries_LBP_make" /\ ret.st = "compute"
    /\ ret.tasks[i] = "pending"
    /\ ret' = [ret EXCEPT !.tasks[i] = "running"]
    /\ UNCHANGED <<call, bmvars>>

\* the task of channel i returns
LBPTaskFinish(i) ==
    /\ call.fn = "boundaries_LBP_make" /\ ret.st = "compute"
    /\ ret.tasks[i] = "running"
    /\ ret' = [ret EXCEPT !.tasks[i] = "done",
                          !.results[i] = _LBP_worker(channel(call.squarebin, i),
                                                     call.mask, call.denoised[i]),
                          !.order = Append(@, i)]
    /\ UNCHANGED <<call, bmvars>>

\* lines 372-374: compute returns when every task is done; np.stack raises
\* ValueError when it is given no array
LBPReturn ==
    /\ call.fn = "boundaries_LBP_make" /\ ret.st = "compute"
    /\ \A i \in 1..Len(ret.tasks) : ret.tasks[i] = "done"
    /\ LET computed == compute(ret.results, ret.order)
       IN  IF Len(computed) = 0
           THEN ret' = [ret EXCEPT !.st = "raised", !.err = "ValueError"]
           ELSE ret' = [ret EXCEPT !.st = "returned",
                                   !.cube = stack_axis2(computed, LBPShape)]
    /\ UNCHANGED <<call, bmvars>>

NextLBPMake ==
    \/ LBPSubmit
    \/ \E i \in 1..Len(ret.tasks) : LBPTaskStart(i)
    \/ \E i \in 1..Len(ret.tasks) : LBPTaskFinish(i)
    \/ LBPReturn

SpecLBPMake == InitLBPMake /\ [][NextLBPMake]_vars

\* the number of channels of the stacked image
NChannels == Len(call.squarebin[1][1])

\* the returned cube has the n channels of the image, channel i being the
\* _LBP_worker result for channel i
CubeOfWorkerResults ==
    /\ Len(ret.cube) = LBPShape[1]
    /\ \A r \in 1..LBPShape[1] :
          /\ Len(ret.cube[r]) = LBPShape[2]
          /\ \A c \in 1..LBPShape[2] :
                /\ Len(ret.cube[r][c]) = NChannels
                /\ \A i \in 1..NChannels :
                      ret.cube[r][c][i] =
                         _LBP_worker(channel(call.squarebin, i), call.mask,
                                     call.denoised[i])[r][c]

(* C12, as the code has it: for a stacked image with n >= 1 channels       *)
(* boundaries_LBP_make returns a cube with n channels in which channel i   *)
(* is the _LBP_worker result for input channel i, for every order in which *)
(* the tasks start and complete; with n = 0 channels it raises ValueError. *)
C12_CubeChannelsInInputOrder ==
    /\ ret.st = "returned" => (NChannels >= 1 /\ CubeOfWorkerResults)
    /\ ret.st = "raised" => (NChannels = 0 /\ ret.err = "ValueError")

(* C12, as claimed: for every stacked image with n channels the call       *)
(* returns a cube with n channels, channel i being the _LBP_worker result  *)
(* for input channel i.                                                    *)
C12_CubeForEveryImage ==
    ret.st \in {"returned", "raised"} =>
        (ret.st = "returned" /\ CubeOfWorkerResults)

\* two channels with different results, the task of the second channel
\* having completed before the task of the first
C12_Witness ==
    /\ ret.st = "returned" /\ NChannels = 2
    /\ ret.order = <<2, 1>>
    /\ ret.results[1] # ret.results[2]
    /\ channel(ret.cube, 1) = ret.results[1]

---------------------------------------------------------------------------
(* Boundaries_Multi.boundaries_LBP_make_multi: the loop over                *)
(* zip(self.datasets, squarebin, masks).  call holds the number of         *)
(* datasets and the two lists; ret holds the position of the loop, the     *)
(* local list results and, once the function has ended, the value the      *)
(* caller receives.                                                        *)

MaxLBPDatasets == 2

\* what one call of boundaries_LBP_make gives, whatever the order of its
\* tasks: the cube, or the ValueError of np.stack for an image without
\* channels
boundaries_LBP_make(squarebin, mask, denoised) ==
    LET n_genes == Len(squarebin[1][1])
        done    == [i \in 1..n_genes |->
                       _LBP_worker(channel(squarebin, i), mask, denoised[i])]
    IN  IF n_genes = 0
        THEN [err |-> "ValueError", cube |-> <<>>]
        ELSE [err |-> "none",
              cube |-> stack_axis2(compute(done, [i \in 1..n_genes |-> i]),
                                   LBPShape)]

\* the stacked images of the modelled lists, each with what denoise_nl_means
\* returns for its channels: one channel, or none
LBPImages ==
    {[squarebin |-> stack_axis2(<<img>>, LBPShape), denoised |-> <<img>>] :
        img \in ChannelImages}
    \cup {[squarebin |-> stack_axis2(<<>>, LBPShape), denoised |-> <<>>]}

\* the sequences over S with at most n elements
ListsUpTo(S, n) == UNION {[1..k -> S] : k \in 0..n}

\* len(zip(a, b, c)): the length of the shortest
Min3(a, b, c) ==
    IF a <= b /\ a <= c THEN a ELSE IF b <= c THEN b ELSE c

\* the value a Python function gives when it ends without a return statement
None == [kind |-> "None"]

InitLBPMulti ==
    /\ call \in [fn : {"boundaries_LBP_make_multi"},
                 n_datasets : 0..MaxLBPDatasets,
                 squarebin : ListsUpTo(LBPImages, MaxLBPDatasets),
                 masks : ListsUpTo(LBPMasks, MaxLBPDatasets)]
    /\ ret = [st |-> "loop", k |-> 1, results |-> <<>>, err |-> "none",
              value |-> [kind |-> "pending"]]
    /\ BMIdle

\* lines 497-498: the next triple of the zip; the cube of its dataset is
\* appended to results, or the call raises
LBPMultiStep ==
    /\ call.fn = "boundaries_LBP_make_multi" /\ ret.st = "loop"
    /\ ret.k <= Min3(call.n_datasets, Len(call.squarebin), Len(call.masks))
    /\ LET r == boundaries_LBP_make(call.squarebin[ret.k].squarebin,
                                    call.masks[ret.k],
                                    call.squarebin[ret.k].denoised)
       IN  IF r.err = "none"
           THEN ret' = [ret EXCEPT !.k = @ + 1,
                                   !.results = Append(@, r.cube)]
           ELSE ret' = [ret EXCEPT !.st = "raised", !.err = r.err]
    /\ UNCHANGED <<call, bmvars>>

\* the zip is exhausted; the function body ends at line 498 without a return
\* statement
LBPMultiEnd ==
    /\ call.fn = "boundaries_LBP_make_multi" /\ ret.st = "loop"
    /\ ret.k > Min3(call.n_datasets, Len(call.squarebin), Len(call.masks))
    /\ ret' = [ret EXCEPT !.st = "returned", !.value = None]
    /\ UNCHANGED <<call, bmvars>>

NextLBPMulti ==
    \/ LBPMultiStep
    \/ LBPMultiEnd

SpecLBPMulti == InitLBPMulti /\ [][NextLBPMulti]_vars

=============================================================================
